---- MODULE Spec2Model ----
(***************************************************************************)
(* Country Currency & Exchange API: the refresh pipeline, the Country      *)
(* table and the query / delete / status / image endpoints, as a state     *)
(* machine.  Every handler is cut at its awaits: one action per stretch    *)
(* of synchronous code, so that requests interleave exactly where the      *)
(* Node.js event loop lets them.  A Prisma call (a single query, or the    *)
(* $transaction array) is one atomic step against the table.               *)
(***************************************************************************)
EXTENDS Integers, Sequences, FiniteSets, TLC

\* JavaScript null / undefined and SQL NULL, for a string.
NULL == "null"
\* A number that may be null: NoNum is null, Num(v) is the number v.
NoNum == <<>>
Num(v) == <<v>>
Val(x) == x[1]

(***************************************************************************)
(* Bounds of the model.                                                    *)
(***************************************************************************)
\* Number of requests the server handles at the same time.
NumProcs == 2
\* Longest country list the countries upstream returns (the long list of
\* LongList apart).
MaxList == 2
\* Number of milliseconds that pass during a behaviour (new Date() values
\* range over 0..MaxClock).
MaxClock == 1

Procs == 1..NumProcs

(***************************************************************************)
(* Strings that the code compares letter by letter are sequences of        *)
(* characters.  LOWER is MySQL's LOWER() on the model's alphabet; CiEq is  *)
(* equality under the table's utf8mb4_unicode_ci collation.                *)
(***************************************************************************)
LowerChar(c) ==
    CASE c = "A" -> "a"
      [] c = "B" -> "b"
      [] c = "C" -> "c"
      [] c = "D" -> "d"
      [] c = "E" -> "e"
      [] c = "F" -> "f"
      [] OTHER -> c

LOWER(s) == [i \in 1..Len(s) |-> LowerChar(s[i])]

CiEq(a, b) == LOWER(a) = LOWER(b)

\* Path segments of the routes.
SegCountries == <<"c","o","u","n","t","r","i","e","s">>
SegRefresh == <<"r","e","f","r","e","s","h">>
SegStatus == <<"s","t","a","t","u","s">>
SegImage == <<"i","m","a","g","e">>

(***************************************************************************)
(* Upstream data: raw country records and rate tables.                     *)
(***************************************************************************)
Raw(n, cap, reg, pop, flag, curs) ==
    [name |-> n, capital |-> cap, region |-> reg, population |-> pop,
     flag |-> flag, currencies |-> curs]

Cur(code) == [code |-> code]

\* A country with a currency the rate tables know.
RawAb == Raw(<<"A","b">>, "Abuja", "Africa", 2, "ab.svg", <<Cur("X")>>)
\* Same name up to case, no currency at all, empty capital and flag.
RawAbLower == Raw(<<"a","b">>, "", "Europe", 4, "", <<>>)
\* Two currencies; only the first one counts.
RawC == Raw(<<"C">>, "Ccity", "", 4, "c.svg", <<Cur("Y"), Cur("X")>>)

\* A record that fails validation: negative population.
RawNeg == Raw(<<"D">>, "Dcity", "Europe", -2, "d.svg", <<>>)

RawCountries == {RawAb, RawAbLower, RawC, RawNeg}

RECURSIVE SeqsUpTo(_, _)
SeqsUpTo(S, n) ==
    IF n = 0 THEN {<<>>}
    ELSE LET shorter == SeqsUpTo(S, n - 1)
         IN  shorter \cup {Append(s, x) : s \in shorter, x \in S}

\* Seven countries with distinct names, six of them with a GDP estimate that
\* is not null (two of these equal): more than the five the summary image
\* lists.
LongList ==
    << Raw(<<"A">>, "a", "Africa", 2, "a.svg", <<Cur("X")>>),
       Raw(<<"B">>, "b", "Africa", 4, "b.svg", <<Cur("X")>>),
       Raw(<<"C">>, "c", "Africa", 6, "c.svg", <<Cur("X")>>),
       Raw(<<"D">>, "d", "Europe", 8, "d.svg", <<Cur("X")>>),
       Raw(<<"E">>, "e", "Europe", 0, "e.svg", <<>>),
       Raw(<<"F">>, "f", "Europe", 0, "f.svg", <<>>),
       Raw(<<"A","b">>, "g", "Europe", 4, "g.svg", <<Cur("Y")>>) >>

ShortLists == SeqsUpTo(RawCountries, MaxList)

\* Rate tables: currency code -> rate.  A code outside the table's domain has
\* no property in the JSON object.
RatesX == [c \in {"X"} |-> 2]
\* A table with a rate that is not positive: the candidate fails the schema.
RatesBad == [c \in {"X", "Y"} |-> IF c = "X" THEN 2 ELSE -1]

(***************************************************************************)
(* The derivation of a candidate row (the body of the loop).               *)
(***************************************************************************)
\* Math.random() * 1000 + 1000: the scale and the offset.
RandomScale == 1000
RandomOffset == 1000
\* The least and the greatest whole multiplier the expression can yield.
Multipliers == {RandomOffset, RandomOffset + RandomScale - 1}

\* JavaScript truthiness of a string-or-null and of a number-or-null.
TruthyStr(s) == s # NULL /\ s # ""
TruthyNum(x) == x # NoNum /\ Val(x) # 0

\* a || null
OrNull(s) == IF TruthyStr(s) THEN s ELSE NULL

\* a / b on doubles.  Populations of the model are even and its rates are 1,
\* 2 and -1, so every quotient taken is a whole number and \div is exact.
Quot(a, b) == IF b > 0 THEN a \div b ELSE -(a \div (-b))

\* A record without a currencies array has the empty sequence here.
CurrencyCode(country) ==
    IF Len(country.currencies) > 0
    THEN country.currencies[1].code
    ELSE NULL

ExchangeRate(currencyCode, exchangeRates) ==
    IF TruthyStr(currencyCode)
       /\ currencyCode \in DOMAIN exchangeRates
       /\ exchangeRates[currencyCode] # 0
    THEN Num(exchangeRates[currencyCode])
    ELSE NoNum

\* Mutant: a country without a rate gets null, with or without a code.
EstimatedGdpNullWithoutRate(population, currencyCode, exchangeRate, randomMultiplier) ==
    IF TruthyNum(exchangeRate)
    THEN Num(Quot(population * randomMultiplier, Val(exchangeRate)))
    ELSE NoNum

EstimatedGdp(population, currencyCode, exchangeRate, randomMultiplier) ==
    IF TruthyNum(exchangeRate)
    THEN Num(Quot(population * randomMultiplier, Val(exchangeRate)))
    ELSE IF TruthyStr(currencyCode) THEN NoNum ELSE Num(0)

ProcessCountry(country, exchangeRates, randomMultiplier) ==
    LET currencyCode == CurrencyCode(country)
        exchangeRate == ExchangeRate(currencyCode, exchangeRates)
    IN  [name |-> country.name,
         capital |-> OrNull(country.capital),
         region |-> OrNull(country.region),
         population |-> country.population,
         currency_code |-> currencyCode,
         exchange_rate |-> exchangeRate,
         estimated_gdp |-> EstimatedGdp(country.population, currencyCode,
                                        exchangeRate, randomMultiplier),
         flag_url |-> OrNull(country.flag)]

\* processedCountrySchema.parse: the fields that fail (empty when it passes).
SchemaIssues(c) ==
    (IF Len(c.name) >= 1 THEN {} ELSE {"name"})
    \cup (IF c.population >= 0 THEN {} ELSE {"population"})
    \cup (IF c.exchange_rate = NoNum \/ Val(c.exchange_rate) > 0 THEN {} ELSE {"exchange_rate"})

Stamp(c, now) ==
    [name |-> c.name, capital |-> c.capital, region |-> c.region,
     population |-> c.population, currency_code |-> c.currency_code,
     exchange_rate |-> c.exchange_rate, estimated_gdp |-> c.estimated_gdp,
     flag_url |-> c.flag_url, last_refreshed_at |-> now]

(***************************************************************************)
(* The Country table and its queries.                                      *)
(***************************************************************************)
\* Rank of a character and the order of names under the collation.
CharRank(c) ==
    CASE LowerChar(c) = "a" -> 1
      [] LowerChar(c) = "b" -> 2
      [] LowerChar(c) = "c" -> 3
      [] LowerChar(c) = "d" -> 4
      [] LowerChar(c) = "e" -> 5
      [] LowerChar(c) = "f" -> 6
      [] OTHER -> 7

RECURSIVE NameLess(_, _)
NameLess(a, b) ==
    IF Len(b) = 0 THEN FALSE
    ELSE IF Len(a) = 0 THEN TRUE
    ELSE IF CharRank(a[1]) # CharRank(b[1]) THEN CharRank(a[1]) < CharRank(b[1])
    ELSE NameLess(Tail(a), Tail(b))

\* Every enumeration of the rows of S in ascending order of key; rows with
\* equal keys come in any order (the engine promises none).
RECURSIVE SortedSeqs(_, _)
SortedSeqs(S, key) ==
    IF S = {} THEN {<<>>}
    ELSE LET least == {x \in S : \A y \in S : key[x] <= key[y]}
         IN  UNION {{<<x>> \o t : t \in SortedSeqs(S \ {x}, key)} : x \in least}

\* ORDER BY name ASC
NameKey(S) == [x \in S |-> Cardinality({y \in S : NameLess(y.name, x.name)})]

\* ORDER BY estimated_gdp ASC: MySQL puts NULL before every value.
GdpAscKey(S) ==
    LET vals == {Val(x.estimated_gdp) : x \in {y \in S : y.estimated_gdp # NoNum}}
        low == IF vals = {} THEN 0 ELSE (CHOOSE v \in vals : \A w \in vals : v <= w) - 1
    IN  [x \in S |-> IF x.estimated_gdp = NoNum THEN low ELSE Val(x.estimated_gdp)]

\* ORDER BY estimated_gdp DESC: NULL after every value.
GdpDescKey(S) == [x \in S |-> 0 - GdpAscKey(S)[x]]

\* prisma.country.count()
Count(table) == Cardinality(table)

\* The unique index Country_name_key, under the table's collation.
UniqueNames(rows) ==
    \A i, j \in 1..Len(rows) : i # j => ~CiEq(rows[i].name, rows[j].name)

RowSet(rows) == {rows[i] : i \in 1..Len(rows)}

\* SELECT ... WHERE LOWER(name) = LOWER(?)
MatchingRows(table, name) == {r \in table : LOWER(r.name) = LOWER(name)}

\* WHERE name = ? on the unique index (prisma.country.delete)
RowsNamed(table, name) == {r \in table : CiEq(r.name, name)}

\* findMany({where: {estimated_gdp: {not: null}}, orderBy desc, take: 5, select})
TakeTop == 5
Prefix(s, n) == SubSeq(s, 1, IF Len(s) < n THEN Len(s) ELSE n)
SelectNameGdp(s) == [i \in 1..Len(s) |-> [name |-> s[i].name, estimated_gdp |-> s[i].estimated_gdp]]
\* Mutant: the five rows of least estimated_gdp.
Top5ResultsAscending(table) ==
    LET withGdp == {r \in table : r.estimated_gdp # NoNum}
    IN  {SelectNameGdp(Prefix(s, TakeTop)) : s \in SortedSeqs(withGdp, GdpAscKey(withGdp))}

Top5Results(table) ==
    LET withGdp == {r \in table : r.estimated_gdp # NoNum}
    IN  {SelectNameGdp(Prefix(s, TakeTop)) : s \in SortedSeqs(withGdp, GdpDescKey(withGdp))}

\* findMany({where, orderBy}) of getCountries
ListResults(table, q) ==
    LET hit == {r \in table :
                   /\ (TruthyStr(q.region) => r.region = q.region)
                   /\ (TruthyStr(q.currency) => r.currency_code = q.currency)}
        key == IF q.sort = "gdp_desc" THEN GdpDescKey(hit)
               ELSE IF q.sort = "gdp_asc" THEN GdpAscKey(hit)
               ELSE NameKey(hit)
    IN  SortedSeqs(hit, key)

\* findFirst({orderBy: {last_refreshed_at: desc}, select}): the greatest
\* timestamp, or null on an empty table.
LastRefreshed(table) ==
    IF table = {} THEN NoNum
    ELSE Num(CHOOSE t \in {r.last_refreshed_at : r \in table} :
                 \A r \in table : r.last_refreshed_at <= t)

(***************************************************************************)
(* The router: routes in the order they are registered; Express hands a    *)
(* request to the first route whose method and path match, and to the      *)
(* application's 404 handler when none does.                               *)
(***************************************************************************)
Param == <<":">>

Route(m, path, h) == [method |-> m, path |-> path, handler |-> h]

Routes ==
    << Route("POST", <<SegCountries, SegRefresh>>, "refreshCountries"),
       Route("GET", <<SegCountries>>, "getCountries"),
       Route("GET", <<SegCountries, Param>>, "getCountry"),
       Route("DELETE", <<SegCountries, Param>>, "deleteCountry"),
       Route("GET", <<SegStatus>>, "getStatus"),
       Route("GET", <<SegCountries, SegImage>>, "getImage") >>

\* Express matches literal segments without regard to case; a parameter
\* matches any one non-empty segment.
PathMatches(pattern, path) ==
    /\ Len(pattern) = Len(path)
    /\ \A i \in 1..Len(pattern) :
           IF pattern[i] = Param THEN Len(path[i]) > 0 ELSE CiEq(pattern[i], path[i])

RouteMatches(route, req) ==
    route.method = req.method /\ PathMatches(route.path, req.path)

Dispatch(routes, req) ==
    LET hits == {i \in 1..Len(routes) : RouteMatches(routes[i], req)}
    IN  IF hits = {} THEN "notFound"
        ELSE routes[CHOOSE i \in hits : \A j \in hits : i <= j].handler

(***************************************************************************)
(* Requests the clients send.                                              *)
(***************************************************************************)
NoQuery == [region |-> NULL, currency |-> NULL, sort |-> NULL]

Queries ==
    { NoQuery, [region |-> "Africa", currency |-> "X", sort |-> "gdp_desc"] }

\* Names asked for: case variants of the names upstream sends.
ParamNames == { <<"a","B">>, <<"c">> }

Req(m, path, q) == [method |-> m, path |-> path, query |-> q]

Requests ==
    {Req("POST", <<SegCountries, SegRefresh>>, NoQuery)}
    \cup {Req("GET", <<SegCountries>>, q) : q \in Queries}
    \cup {Req(m, <<SegCountries, n>>, NoQuery) :
             m \in {"GET", "DELETE"}, n \in ParamNames \cup {SegImage}}
    \cup {Req(m, <<SegStatus>>, NoQuery) : m \in {"GET", "POST"}}

(***************************************************************************)
(* State.                                                                  *)
(***************************************************************************)
VARIABLES
    store,    \* the rows of table Country
    files,    \* the summary image files that exist: "tmp", "cache"
    clock,    \* the wall clock, in milliseconds
    proc,     \* per request slot: where its handler stands, and its locals
    calc      \* the inputs and the result of one derivation (SpecGdp)

server == <<store, files, clock, proc>>
vars == <<store, files, clock, proc, calc>>

NoReq == [method |-> "", path |-> <<>>, query |-> NoQuery]
NoRes == [status |-> 0, body |-> <<>>]

\* A free slot.
Idle ==
    [pc |-> "idle", handler |-> "", req |-> NoReq, name |-> <<>>,
     data |-> <<>>, rows |-> <<>>, now |-> 0, total |-> 0, top5 |-> <<>>,
     res |-> NoRes]

Json(status, body) == [status |-> status, body |-> body]

\* The handler has sent res and is over.  Of its locals the slot keeps the
\* request and the name it worked on (and, where a refresh is refused, the
\* list or the rows it was refused for) until the client has the response.
Finish(self, res) ==
    [Idle EXCEPT !.pc = "done", !.handler = self.handler, !.req = self.req,
                 !.name = self.name, !.res = res]

NoCalc == <<>>

Init ==
    /\ store = {}
    /\ files = {}
    /\ clock = 0
    /\ proc = [p \in Procs |-> Idle]
    /\ calc = NoCalc

\* getImage: synchronous; /tmp first, then the cache directory.
GetImageResponse(existing) ==
    IF "tmp" \in existing THEN Json(200, "tmp")
    ELSE IF "cache" \in existing THEN Json(200, "cache")
    ELSE Json(404, "Summary image not found")

\* A request arrives: Express dispatches it and the handler runs up to its
\* first await.
Started(h, req, existing) ==
    LET self == [Idle EXCEPT !.handler = h, !.req = req]
    IN  CASE h = "refreshCountries" -> [self EXCEPT !.pc = "fetchCountries"]
          [] h = "getCountries" -> [self EXCEPT !.pc = "listQuery"]
          [] h = "getCountry" -> [self EXCEPT !.pc = "getQuery", !.name = req.path[2]]
          [] h = "deleteCountry" -> [self EXCEPT !.pc = "deleteQuery", !.name = req.path[2]]
          [] h = "getStatus" -> [self EXCEPT !.pc = "statusCount"]
          [] h = "getImage" -> Finish(self, GetImageResponse(existing))
          [] OTHER -> Finish(self, Json(404, "Route not found"))

Receive(p) ==
    /\ proc[p].pc = "idle"
    /\ \E req \in Requests :
          proc' = [proc EXCEPT ![p] = Started(Dispatch(Routes, req), req, files)]
    /\ UNCHANGED <<store, files, clock, calc>>

\* The client has the response; the slot takes the next request.
Return(p) ==
    /\ proc[p].pc = "done"
    /\ proc' = [proc EXCEPT ![p] = Idle]
    /\ UNCHANGED <<store, files, clock, calc>>

Tick ==
    /\ clock < MaxClock
    /\ clock' = clock + 1
    /\ UNCHANGED <<store, files, proc, calc>>

(***************************************************************************)
(* refreshCountries                                                        *)
(***************************************************************************)
Unavailable == Json(503, "External data source unavailable")
InternalError == Json(500, "Internal server error")

\* await fetchCountries() returns: no data, or a country list.
FetchCountriesReturns(p, lists) ==
    /\ proc[p].pc = "fetchCountries"
    /\ \/ proc' = [proc EXCEPT ![p] = Finish(proc[p], Unavailable)]
       \/ \E countriesData \in lists :
             proc' = [proc EXCEPT ![p].pc = "fetchRates", ![p].data = countriesData]
    /\ UNCHANGED <<store, files, clock, calc>>

\* The loop over countriesData, with one random multiplier per country.
Processed(countriesData, exchangeRates, ms) ==
    [i \in 1..Len(countriesData) |->
        ProcessCountry(countriesData[i], exchangeRates, ms[i])]

\* Index of the first candidate that fails the schema; 0 when all pass.
FirstInvalid(cs) ==
    LET bad == {i \in 1..Len(cs) : SchemaIssues(cs[i]) # {}}
    IN  IF bad = {} THEN 0 ELSE CHOOSE i \in bad : \A j \in bad : i <= j

ValidationFailed(country, details) ==
    Json(400, [error |-> "Validation failed for country data",
               country |-> country.name, details |-> details])

\* Mutant: a candidate that fails the schema is left out and the loop goes on.
AfterLoopSkipInvalid(self, exchangeRates, now, ms) ==
    LET cs == Processed(self.data, exchangeRates, ms)
        ok == SelectSeq(cs, LAMBDA c : SchemaIssues(c) = {})
    IN  [self EXCEPT !.pc = "transaction", !.data = <<>>, !.now = now,
                     !.rows = [i \in 1..Len(ok) |-> Stamp(ok[i], now)]]

\* Where the handler stands once the loop is over: countriesToUpsert built
\* (every row stamped with now) and the transaction issued, or the 400 sent.
AfterLoop(self, exchangeRates, now, ms) ==
    LET cs == Processed(self.data, exchangeRates, ms)
        k == FirstInvalid(cs)
    IN  IF k = 0
        THEN [self EXCEPT !.pc = "transaction", !.data = <<>>, !.now = now,
                          !.rows = [i \in 1..Len(cs) |-> Stamp(cs[i], now)]]
        ELSE [Finish(self, ValidationFailed(self.data[k], SchemaIssues(cs[k])))
                 EXCEPT !.data = self.data]

\* await fetchExchangeRates() returns: no data, or a rate table; then
\* now = new Date() and the loop run without a break.
FetchRatesReturns(p, tables, multipliers) ==
    /\ proc[p].pc = "fetchRates"
    /\ \/ proc' = [proc EXCEPT ![p] = Finish(proc[p], Unavailable)]
       \/ \E exchangeRates \in tables :
          \E ms \in [1..Len(proc[p].data) -> multipliers] :
             proc' = [proc EXCEPT ![p] = AfterLoop(proc[p], exchangeRates, clock, ms)]
    /\ UNCHANGED <<store, files, clock, calc>>

\* prisma.$transaction([deleteMany(), createMany({data})]): both statements
\* take effect together, or (createMany hitting the unique index) neither.
\* Mutant: createMany with skipDuplicates, which never fails.
CommitsSkippingDuplicates(rows) == TRUE

Commits(rows) == UniqueNames(rows)

\* Mutant: the two statements sent one after the other, outside a
\* transaction; createMany stops at the first duplicate.
ReplaceAllUnwrapped(table, rows) ==
    IF UniqueNames(rows) THEN RowSet(rows)
    ELSE LET dup == {j \in 1..Len(rows) :
                        \E i \in 1..(j - 1) : CiEq(rows[i].name, rows[j].name)}
             first == CHOOSE j \in dup : \A k \in dup : j <= k
         IN  {rows[i] : i \in 1..(first - 1)}

\* Mutant: the failed createMany does not bring the deleted rows back.
ReplaceAllNoRollback(table, rows) == IF UniqueNames(rows) THEN RowSet(rows) ELSE {}

\* Mutant: an upsert of the candidates, without the deleteMany.
ReplaceAllKeepOld(table, rows) ==
    IF UniqueNames(rows)
    THEN {r \in table : \A i \in 1..Len(rows) : ~CiEq(rows[i].name, r.name)} \cup RowSet(rows)
    ELSE table

ReplaceAll(table, rows) == IF Commits(rows) THEN RowSet(rows) ELSE table

Transaction(p) ==
    /\ proc[p].pc = "transaction"
    /\ store' = ReplaceAll(store, proc[p].rows)
    /\ proc' = [proc EXCEPT ![p] =
                  IF Commits(proc[p].rows)
                  THEN [proc[p] EXCEPT !.pc = "count"]
                  ELSE [Finish(proc[p], InternalError) EXCEPT !.rows = proc[p].rows]]
    /\ UNCHANGED <<files, clock, calc>>

\* await prisma.country.count()
RefreshCount(p) ==
    /\ proc[p].pc = "count"
    /\ proc' = [proc EXCEPT ![p].pc = "top5", ![p].total = Count(store)]
    /\ UNCHANGED <<store, files, clock, calc>>

\* await prisma.country.findMany(top 5 by estimated_gdp)
RefreshTop5(p) ==
    /\ proc[p].pc = "top5"
    /\ \E top5Gdp \in Top5Results(store) :
          proc' = [proc EXCEPT ![p].pc = "render", ![p].top5 = top5Gdp]
    /\ UNCHANGED <<store, files, clock, calc>>

\* await generateSummaryImage(totalCountries, top5Gdp, now): the image is
\* written to its well-known path, or the call throws.
SummaryPath == "cache"

Render(p) ==
    /\ proc[p].pc = "render"
    /\ \/ /\ files' = files \cup {SummaryPath}
          /\ proc' = [proc EXCEPT ![p] =
                        Finish(proc[p], Json(200, "Countries refreshed successfully"))]
       \/ /\ files' = files
          /\ proc' = [proc EXCEPT ![p] = Finish(proc[p], InternalError)]
    /\ UNCHANGED <<store, clock, calc>>

(***************************************************************************)
(* getCountries, getCountry, deleteCountry, getStatus                      *)
(***************************************************************************)
NotFound == Json(404, "Country not found")

\* await prisma.country.findMany({where, orderBy})
ListQuery(p) ==
    /\ proc[p].pc = "listQuery"
    /\ \E countries \in ListResults(store, proc[p].req.query) :
          proc' = [proc EXCEPT ![p] = Finish(proc[p], Json(200, countries))]
    /\ UNCHANGED <<store, files, clock, calc>>

\* await prisma.$queryRaw`SELECT * ... LIMIT 1`
GetQuery(p) ==
    /\ proc[p].pc = "getQuery"
    /\ LET countries == MatchingRows(store, proc[p].name)
       IN  \/ /\ countries = {}
              /\ proc' = [proc EXCEPT ![p] = Finish(proc[p], NotFound)]
           \/ \E country \in countries :
                 proc' = [proc EXCEPT ![p] = Finish(proc[p], Json(200, country))]
    /\ UNCHANGED <<store, files, clock, calc>>

\* await prisma.$queryRaw`SELECT id, name ... LIMIT 1`; country = countries[0]
DeleteQuery(p) ==
    /\ proc[p].pc = "deleteQuery"
    /\ LET countries == MatchingRows(store, proc[p].name)
       IN  \/ /\ countries = {}
              /\ proc' = [proc EXCEPT ![p] = Finish(proc[p], NotFound)]
           \/ \E country \in countries :
                 proc' = [proc EXCEPT ![p].pc = "deleteRow", ![p].name = country.name]
    /\ UNCHANGED <<store, files, clock, calc>>

\* await prisma.country.delete({where: {name}}): throws when no row has the
\* name, and the catch answers 500.
DeleteResponse(table, name) ==
    IF RowsNamed(table, name) = {} THEN InternalError ELSE Json(204, "")

DeleteRow(p) ==
    /\ proc[p].pc = "deleteRow"
    /\ store' = store \ RowsNamed(store, proc[p].name)
    /\ proc' = [proc EXCEPT ![p] = Finish(proc[p], DeleteResponse(store, proc[p].name))]
    /\ UNCHANGED <<files, clock, calc>>

\* await prisma.country.count()
StatusCount(p) ==
    /\ proc[p].pc = "statusCount"
    /\ proc' = [proc EXCEPT ![p].pc = "statusLast", ![p].total = Count(store)]
    /\ UNCHANGED <<store, files, clock, calc>>

\* await prisma.country.findFirst(latest last_refreshed_at), then the response
StatusResponse(totalCountries, last) ==
    Json(200, [total_countries |-> totalCountries, last_refreshed_at |-> last])

StatusLast(p) ==
    /\ proc[p].pc = "statusLast"
    /\ proc' = [proc EXCEPT ![p] =
                  Finish(proc[p], StatusResponse(proc[p].total, LastRefreshed(store)))]
    /\ UNCHANGED <<store, files, clock, calc>>

(***************************************************************************)
(* The server: requests handled side by side.                              *)
(***************************************************************************)
Step(p, lists, tables, multipliers) ==
    \/ Receive(p)
    \/ FetchCountriesReturns(p, lists)
    \/ FetchRatesReturns(p, tables, multipliers)
    \/ Transaction(p)
    \/ RefreshCount(p)
    \/ RefreshTop5(p)
    \/ Render(p)
    \/ ListQuery(p)
    \/ GetQuery(p)
    \/ DeleteQuery(p)
    \/ DeleteRow(p)
    \/ StatusCount(p)
    \/ StatusLast(p)
    \/ Return(p)

\* Short country lists of every shape, one rate table, the multiplier at its
\* greatest.
Next == Tick \/ \E p \in Procs : Step(p, ShortLists, {RatesX}, {RandomOffset + RandomScale - 1})

Spec == Init /\ [][Next]_vars

\* The long list, either rate table, the multiplier at its least.
NextLong == Tick \/ \E p \in Procs : Step(p, {LongList}, {RatesX, RatesBad}, {RandomOffset})

SpecLong == Init /\ [][NextLong]_vars

(***************************************************************************)
(* The derivation alone: one raw country, one rate table, one multiplier.  *)
(***************************************************************************)
Populations == {0, 2, 6}
CurrencyLists == {<<>>, <<Cur("X")>>, <<Cur("Y")>>, <<Cur("Y"), Cur("X")>>}
GdpCountries ==
    {Raw(<<"A">>, "a", "Africa", pop, "a.svg", curs) :
        pop \in Populations, curs \in CurrencyLists}
GdpRateTables ==
    { [c \in {} |-> 0],
      RatesX,
      RatesBad,
      [c \in {"X", "Y"} |-> IF c = "X" THEN 1 ELSE 2],
      [c \in {"Y"} |-> 0] }

InitGdp ==
    /\ store = {}
    /\ files = {}
    /\ clock = 0
    /\ proc = [p \in Procs |-> Idle]
    /\ \E country \in GdpCountries, exchangeRates \in GdpRateTables,
          randomMultiplier \in Multipliers :
          calc = << [country |-> country, exchangeRates |-> exchangeRates,
                     randomMultiplier |-> randomMultiplier, out |-> <<>>] >>

\* One pass through the body of the loop.
Derive ==
    /\ calc # NoCalc
    /\ calc[1].out = <<>>
    /\ calc' = << [calc[1] EXCEPT !.out =
                     << ProcessCountry(calc[1].country, calc[1].exchangeRates,
                                       calc[1].randomMultiplier) >>] >>
    /\ UNCHANGED server

SpecGdp == InitGdp /\ [][Derive]_vars

(***************************************************************************)
(* C6.  The GDP estimate follows the three-way branch.                     *)
(***************************************************************************)
Derived == calc # NoCalc /\ calc[1].out # <<>>
InCountry == calc[1].country
InRates == calc[1].exchangeRates
Out == calc[1].out[1]
HasCode == Len(InCountry.currencies) > 0
FirstCode == InCountry.currencies[1].code
HasRate == HasCode /\ FirstCode \in DOMAIN InRates
PositiveRate == HasRate /\ InRates[FirstCode] > 0

\* The two branches without a rate: a code with no matching rate gives null
\* (and a null exchange_rate), no code at all gives 0.
NoRateBranches ==
    /\ (HasCode /\ ~HasRate) =>
          Out.estimated_gdp = NoNum /\ Out.exchange_rate = NoNum
    /\ ~HasCode => Out.estimated_gdp = Num(0)

\* estimated_gdp = population * m / rate for some m, 1000 <= m < 2000.
SomeMultiplier ==
    PositiveRate =>
        /\ Out.exchange_rate = Num(InRates[FirstCode])
        /\ Out.estimated_gdp # NoNum
        /\ \E m \in RandomOffset..(RandomOffset + RandomScale - 1) :
              Val(Out.estimated_gdp) * InRates[FirstCode] = InCountry.population * m

\* estimated_gdp lies in [P*1000/R, P*2000/R).
InRange ==
    /\ InCountry.population * RandomOffset
          <= Val(Out.estimated_gdp) * InRates[FirstCode]
    /\ Val(Out.estimated_gdp) * InRates[FirstCode]
          < InCountry.population * (RandomOffset + RandomScale)

\* C6 as stated: whenever the rate of the first currency code is present and
\* positive, estimated_gdp = population * m / rate with 1000 <= m < 2000 and so
\* lies in [P*1000/R, P*2000/R); a code without a matching rate gives null
\* estimated_gdp and null exchange_rate; no code at all gives 0.
C6_AsStated ==
    Derived => NoRateBranches /\ SomeMultiplier /\ (PositiveRate => InRange)

\* C6, amended: as stated, the interval claimed only for a population
\* greater than 0; a population of 0 gives an estimated_gdp of 0.
C6_ThreeWayBranch ==
    Derived =>
        /\ NoRateBranches
        /\ SomeMultiplier
        /\ (PositiveRate /\ InCountry.population > 0) => InRange
        /\ (PositiveRate /\ InCountry.population = 0) => Out.estimated_gdp = Num(0)

\* The derivation has run on a populated country whose second currency has
\* a rate and whose first has none, and on one with a positive rate.
C6_Witness ==
    /\ Derived
    /\ PositiveRate
    /\ InCountry.population > 0
    /\ Len(InCountry.currencies) = 2
    /\ Val(Out.estimated_gdp) * InRates[FirstCode]
          = InCountry.population * (RandomOffset + RandomScale - 1)

(***************************************************************************)
(* Claims about the server.  A step "of p from pc" is a step in which slot *)
(* p leaves control point pc.                                              *)
(***************************************************************************)
Leaves(p, pc) == proc[p].pc = pc /\ proc'[p].pc # pc
Answers(p, pc) == proc[p].pc = pc /\ proc'[p].pc = "done"

\* The rows a query with the given filters is to return.
Filtered(table, q) ==
    {r \in table : /\ (q.region # NULL => r.region = q.region)
                   /\ (q.currency # NULL => r.currency_code = q.currency)}

\* The rows a name addresses, whatever its case.
Addressed(table, name) == {r \in table : LOWER(r.name) = LOWER(name)}

\* Every read returns what the table holds in the state it is made in.
ReadsWholeTable ==
    \A p \in Procs :
        /\ Answers(p, "listQuery") =>
              LET hit == Filtered(store, proc[p].req.query)
                  body == proc'[p].res.body
              IN  RowSet(body) = hit /\ Len(body) = Cardinality(hit)
        /\ Answers(p, "getQuery") =>
              IF Addressed(store, proc[p].name) = {}
              THEN proc'[p].res.status = 404
              ELSE proc'[p].res.status = 200
                   /\ proc'[p].res.body \in Addressed(store, proc[p].name)
        /\ Leaves(p, "statusCount") => proc'[p].total = Cardinality(store)
        /\ Answers(p, "statusLast") =>
              LET last == proc'[p].res.body.last_refreshed_at
              IN  IF store = {} THEN last = NoNum
                  ELSE last # NoNum /\ \E r \in store : r.last_refreshed_at = Val(last)

\* The table changes in two ways only: a refresh puts all of its candidate
\* rows in the place of all the rows there were, or a delete takes one row out.
ChangesWhole ==
    /\ \A p \in Procs :
          Leaves(p, "transaction") =>
              \/ store' = store
              \/ store' = RowSet(proc[p].rows)
                 /\ Cardinality(store') = Len(proc[p].rows)
    /\ store' # store =>
          \E p \in Procs :
              \/ Leaves(p, "transaction")
              \/ Leaves(p, "deleteRow") /\ \E r \in store : store' = store \ {r}

\* C1: the replace-all of a refresh is atomic for readers: every read
\* (GET /countries, GET /countries/:name, either query of GET /status) sees
\* the whole table as it was before a refresh committed or the whole table
\* the refresh wrote, never an empty or partly filled table in between.
C1_AtomicReplace == [][ReadsWholeTable /\ ChangesWhole]_vars

\* A list read has returned both rows of a refresh that is still running.
C1_Witness ==
    \E p, q \in Procs :
        /\ proc[p].pc = "done"
        /\ proc[p].handler = "getCountries"
        /\ proc[p].req.query = NoQuery
        /\ proc[q].pc \in {"count", "top5", "render"}
        /\ Len(proc[q].rows) = 2
        /\ Len(proc[p].res.body) = 2
        /\ RowSet(proc[p].res.body) = RowSet(proc[q].rows)

\* C2: when the transaction of a refresh commits, the table holds exactly one
\* row per candidate, none of the rows it held before, and every row carries
\* the now the cycle took before the loop; a list of valid candidates whose
\* names differ (under the collation) commits.
C2_CommitStep ==
    \A p \in Procs :
        Leaves(p, "transaction") =>
            LET rows == proc[p].rows
            IN  /\ (\A i, j \in 1..Len(rows) :
                        i # j => LOWER(rows[i].name) # LOWER(rows[j].name))
                      => proc'[p].pc = "count"
                /\ proc'[p].pc = "count" =>
                      /\ Cardinality(store') = Len(rows)
                      /\ \A i \in 1..Len(rows) : rows[i] \in store'
                      /\ \A r \in store' :
                            /\ \E i \in 1..Len(rows) : r = rows[i]
                            /\ r.last_refreshed_at = proc[p].now

C2_ReplacesAll == [][C2_CommitStep]_vars

\* A refresh that took its now after the clock had moved has just committed
\* two rows.
C2_Witness ==
    \E p \in Procs :
        /\ proc[p].pc = "count"
        /\ proc[p].now > 0
        /\ Len(proc[p].rows) = 2
        /\ Cardinality(store) = 2
        /\ store = RowSet(proc[p].rows)

\* All rows carry one last_refreshed_at.
OneStamp == \A r1, r2 \in store : r1.last_refreshed_at = r2.last_refreshed_at

\* A commit stamps every row with the committing cycle's now, and no other
\* step brings a row in.
StampedByLastCommit ==
    /\ \A p \in Procs :
          (Leaves(p, "transaction") /\ proc'[p].pc = "count") =>
              \A r \in store' : r.last_refreshed_at = proc[p].now
    /\ (\A p \in Procs : ~(Leaves(p, "transaction") /\ proc'[p].pc = "count"))
          => store' \subseteq store

\* C3: in every state all rows carry the same last_refreshed_at, the now of
\* the refresh that committed last, whatever the interleaving of refreshes
\* and deletes; rows of two cycles never coexist.
C3_OneCycle == []OneStamp /\ [][StampedByLastCommit]_vars

\* Two refreshes with different now values have committed one after the
\* other, the earlier now last.
C3_Witness ==
    \E p, q \in Procs :
        /\ p # q
        /\ proc[p].pc \in {"count", "top5", "render"}
        /\ proc[q].pc \in {"count", "top5", "render"}
        /\ proc[p].now < proc[q].now
        /\ store = RowSet(proc[p].rows)
        /\ store # {}

\* Whether a raw country makes a candidate that fails the schema.
RawInvalid(c, rates) ==
    \/ Len(c.name) = 0
    \/ c.population < 0
    \/ /\ Len(c.currencies) > 0
       /\ c.currencies[1].code \in DOMAIN rates
       /\ rates[c.currencies[1].code] < 0

\* A refresh that ends at a fetch or in the loop: 503 on a missing upstream,
\* 400 naming the first failing candidate, and the table is left alone.
RefusedWritesNothing ==
    \A p \in Procs :
        /\ Leaves(p, "fetchCountries") =>
              /\ store' = store
              /\ proc'[p].pc = "done" => proc'[p].res.status = 503
        /\ Leaves(p, "fetchRates") =>
              /\ store' = store
              /\ \/ proc'[p].pc = "done" /\ proc'[p].res.status = 503
                 \/ \E rates \in {RatesX, RatesBad} :
                       LET data == proc[p].data
                           bad == {i \in 1..Len(data) : RawInvalid(data[i], rates)}
                       IN  IF bad = {}
                           THEN /\ proc'[p].pc = "transaction"
                                /\ Len(proc'[p].rows) = Len(data)
                           ELSE /\ proc'[p].pc = "done"
                                /\ proc'[p].res.status = 400
                                /\ proc'[p].res.body.country
                                     = data[CHOOSE i \in bad : \A j \in bad : i <= j].name

\* C4: a refresh is all-or-nothing on failure: no data from either upstream
\* gives 503, a candidate failing the schema (at any place in the list)
\* gives 400 naming it, and in both cases nothing is written, the candidates
\* validated before the failing one included.
C4_AllOrNothing == [][RefusedWritesNothing]_vars

\* A refresh has answered 400 for the last candidate of its list, the one
\* before it valid, with rows in the table.
C4_Witness ==
    \E p \in Procs :
        /\ proc[p].pc = "done"
        /\ proc[p].handler = "refreshCountries"
        /\ proc[p].res.status = 400
        /\ Len(proc[p].data) = 2
        /\ ~RawInvalid(proc[p].data[1], RatesX)
        /\ proc[p].res.body.country = proc[p].data[2].name
        /\ store # {}

\* No two rows have the same name.
UniqueInStore == \A r1, r2 \in store : r1.name = r2.name => r1 = r2

\* A refresh whose candidates repeat a name leaves the table as it was and
\* answers with an error.
DuplicateAborts ==
    \A p \in Procs :
        (/\ Leaves(p, "transaction")
         /\ \E i, j \in 1..Len(proc[p].rows) :
               i # j /\ proc[p].rows[i].name = proc[p].rows[j].name)
        => /\ store' = store
           /\ proc'[p].pc = "done"
           /\ proc'[p].res.status >= 400

\* C5: names are unique in every state, and a refresh with two candidates of
\* the same name is rolled back: the table is as before the refresh and the
\* response is an error.
C5_UniqueNames == []UniqueInStore /\ [][DuplicateAborts]_vars

\* A refresh with the same name twice has answered 500 and the table still
\* holds rows.
C5_Witness ==
    \E p \in Procs :
        /\ proc[p].pc = "done"
        /\ proc[p].handler = "refreshCountries"
        /\ proc[p].res.status = 500
        /\ Len(proc[p].rows) = 2
        /\ proc[p].rows[1].name = proc[p].rows[2].name
        /\ store # {}

ImageRequest == Req("GET", <<SegCountries, SegImage>>, NoQuery)

\* C7: GET /countries/image goes to the image handler, not to the lookup of
\* /countries/:name, and answers 404 while no summary image was ever
\* rendered and 200 with the image once a refresh has succeeded.
C7_Step ==
    \A p \in Procs :
        (proc[p].pc = "idle" /\ proc'[p].req = ImageRequest) =>
            /\ proc'[p].handler = "getImage"
            /\ proc'[p].pc = "done"
            /\ proc'[p].res.status = IF files = {} THEN 404 ELSE 200

C7_ImageServed == [][C7_Step]_vars

\* The name in the path of the request slot p handles.
Asked(p) == proc[p].req.path[2]

\* C8: lookup and delete match the name whatever its case: GET returns the
\* row, DELETE removes exactly that row and answers 204, and a DELETE that
\* finds no row to remove, at the query or at the removal, answers 404 and
\* changes nothing, whatever the order of deletes and refreshes.
C8_Step ==
    \A p \in Procs :
        /\ Answers(p, "getQuery") =>
              IF Addressed(store, Asked(p)) = {}
              THEN proc'[p].res.status = 404
              ELSE proc'[p].res.status = 200
                   /\ proc'[p].res.body \in Addressed(store, Asked(p))
        /\ (Answers(p, "deleteQuery") \/ Answers(p, "deleteRow")) =>
              IF Addressed(store, Asked(p)) = {}
              THEN proc'[p].res.status = 404 /\ store' = store
              ELSE /\ proc'[p].res.status = 204
                   /\ store' = store \ Addressed(store, Asked(p))
                   /\ Cardinality(store') = Cardinality(store) - 1
        /\ Leaves(p, "deleteQuery") => store' = store

C8_CaseInsensitive == [][C8_Step]_vars

\* C9: every GET /status response gives the number of rows of the table and
\* the greatest last_refreshed_at of its rows, null when it is empty, and
\* total_countries is 0 exactly when last_refreshed_at is null, also when a
\* delete or a refresh overlaps the request.
C9_StatusCoherent ==
    \A p \in Procs :
        (proc[p].pc = "done" /\ proc[p].handler = "getStatus") =>
            LET body == proc[p].res.body
            IN  /\ body.total_countries = 0 <=> body.last_refreshed_at = NoNum
                /\ body.total_countries >= 0

\* The arguments slot p is about to hand to generateSummaryImage.
ImageTotal(p) == proc[p].total
ImageTop5(p) == proc[p].top5
ImageAsOf(p) == proc[p].now

Descending(top) ==
    \A i \in 1..(Len(top) - 1) : Val(top[i].estimated_gdp) >= Val(top[i + 1].estimated_gdp)

\* Every entry of top is the name and the estimate of a row among rows.
EntriesOf(top, rows) ==
    \A i \in 1..Len(top) :
        \E r \in rows : r.name = top[i].name /\ r.estimated_gdp = top[i].estimated_gdp

\* C10: what a cycle hands to generateSummaryImage comes from the rows this
\* cycle committed: the count is the number of its candidates, every top-5
\* entry is one of its rows with an estimate that is not null, in descending
\* order and at most five, the timestamp its now -- also when another
\* refresh or a delete runs between its commit and its two queries.
C10_OwnCommit ==
    \A p \in Procs :
        proc[p].pc = "render" =>
            /\ ImageTotal(p) = Len(proc[p].rows)
            /\ EntriesOf(ImageTop5(p), RowSet(proc[p].rows))
            /\ \A i \in 1..Len(ImageTop5(p)) : ImageTop5(p)[i].estimated_gdp # NoNum
            /\ Descending(ImageTop5(p))
            /\ Len(ImageTop5(p)) <= TakeTop
            /\ \A i \in 1..Len(proc[p].rows) :
                  proc[p].rows[i].last_refreshed_at = ImageAsOf(p)

\* The two queries answer from the table as it stands when each runs; they
\* answer from the cycle's own commit when the table then holds the rows the
\* cycle committed.
QueriesReadTable ==
    \A p \in Procs :
        /\ Leaves(p, "count") =>
              /\ proc'[p].total = Cardinality(store)
              /\ store = RowSet(proc[p].rows) => proc'[p].total = Len(proc[p].rows)
        /\ Leaves(p, "top5") =>
              LET top == proc'[p].top5
                  withGdp == {r \in store : r.estimated_gdp # NoNum}
              IN  /\ EntriesOf(top, withGdp)
                  /\ \A i \in 1..Len(top) : top[i].estimated_gdp # NoNum
                  /\ Descending(top)
                  /\ Len(top) <= TakeTop
                  /\ Len(top) = TakeTop \/ Len(top) = Cardinality(withGdp)
                  /\ \A r \in withGdp :
                        (\E i \in 1..Len(top) : top[i].name = r.name)
                        \/ (Len(top) > 0
                            /\ Val(r.estimated_gdp) <= Val(top[Len(top)].estimated_gdp))
                  /\ store = RowSet(proc[p].rows)
                        => EntriesOf(top, RowSet(proc[p].rows))

\* Between its commit and the rendering, the rows of a cycle are stamped with
\* the now it hands to the renderer.
StampIsNow ==
    \A p \in Procs :
        proc[p].pc \in {"count", "top5", "render"} =>
            \A i \in 1..Len(proc[p].rows) :
                proc[p].rows[i].last_refreshed_at = ImageAsOf(p)

\* C10, amended: the count and the top-5 list handed to generateSummaryImage are
\* read from the table as it stands when each query runs; the list is in
\* descending order of estimated_gdp, without nulls, at most five long, and
\* the timestamp is the cycle's now.  They are the count and the rows of the
\* cycle's own commit whenever the table still holds exactly the rows the
\* cycle committed when the queries run.
C10_ReadsCurrentTable == []StampIsNow /\ [][QueriesReadTable]_vars

\* A cycle that committed seven rows is about to render five of them, the
\* table still its own.
C10_Witness ==
    \E p \in Procs :
        /\ proc[p].pc = "render"
        /\ store = RowSet(proc[p].rows)
        /\ ImageTotal(p) = 7
        /\ Len(ImageTop5(p)) = TakeTop

====
